---- MODULE Spec2Model ----
(***************************************************************************)
(* Model of the game server in server/src/main.rs: the shared world state  *)
(* (game_state), the connection registry (clients), one session per        *)
(* accepted connection (handle_connection), its forward task and           *)
(* broadcast_game_state.                                                   *)
(***************************************************************************)
EXTENDS Integers, Sequences, FiniteSets, TLC

\* ------------------------------------------------------------ constants
CANVAS_WIDTH == 800
CANVAS_HEIGHT == 600
PLAYER_SIZE == 50
PLAYER_SPEED == 5

\* ------------------------------------------------------------ bounds
\* Inbound frames the server reads in one run, over all connections.
MaxFrames == 2

\* Moves of the connections outside Walkers in a run of SpecStore.
MaxStoreMoves == 1

\* Connections accepted in one run.
MaxSessions == 2

\* Remote socket addresses that connect, each at most once.  Two of them
\* share the port and differ in the host; the third has another port.
Addrs ==
    { [host |-> 1, port |-> 1200],
      [host |-> 2, port |-> 1200],
      [host |-> 1, port |-> 1201] }

\* Directions a Move frame carries: the four the server knows and one it
\* does not.
Directions == {"w", "a", "s", "d", "x"}

\* The connections whose moves SpecStore does not count: they walk the
\* whole canvas.
Walkers == {a \in Addrs : a.port = 1200}

\* Directions of the Move frames the sessions read.
SessionDirections == {"d", "x"}

None == [none |-> TRUE]

\* ------------------------------------------------------------ pure code
colors == <<"#FF0000", "#00FF00", "#0000FF", "#FFFF00", "#FF00FF", "#00FFFF">>

\* format!("player_{}", addr.port())
PlayerId(addr) == <<"player", addr.port>>

\* The Player built at connect time from the remote port.
NewPlayer(addr) ==
    [ id    |-> PlayerId(addr),
      x     |-> 100 + (addr.port % 400),
      y     |-> 100 + (addr.port % 300),
      color |-> colors[(addr.port % Len(colors)) + 1] ]

\* A Move whose match applies the displacement without the comparisons of
\* lines 148, 153, 158 and 163.
MovePlayerSkipsGuard(p, direction) ==
    CASE direction = "w" -> [p EXCEPT !.y = p.y - PLAYER_SPEED]
      [] direction = "a" -> [p EXCEPT !.x = p.x - PLAYER_SPEED]
      [] direction = "s" -> [p EXCEPT !.y = p.y + PLAYER_SPEED]
      [] direction = "d" -> [p EXCEPT !.x = p.x + PLAYER_SPEED]
      [] OTHER -> p

\* A Move whose arm "d" also adds the displacement to y.
MovePlayerBothAxes(p, direction) ==
    CASE direction = "w" ->
            IF p.y > PLAYER_SPEED
            THEN [p EXCEPT !.y = p.y - PLAYER_SPEED] ELSE p
      [] direction = "a" ->
            IF p.x > PLAYER_SPEED
            THEN [p EXCEPT !.x = p.x - PLAYER_SPEED] ELSE p
      [] direction = "s" ->
            IF p.y < CANVAS_HEIGHT - PLAYER_SIZE - PLAYER_SPEED
            THEN [p EXCEPT !.y = p.y + PLAYER_SPEED] ELSE p
      [] direction = "d" ->
            IF p.x < CANVAS_WIDTH - PLAYER_SIZE - PLAYER_SPEED
            THEN [p EXCEPT !.x = p.x + PLAYER_SPEED,
                           !.y = p.y + PLAYER_SPEED] ELSE p
      [] OTHER -> p

\* Lines 146-168: the match on the direction of a Move, on one player
\* record.  x and y are u32 in the code and integers here: a subtraction that
\* would underflow the u32 shows as a negative coordinate.
MovePlayer(p, direction) ==
    CASE direction = "w" ->
            IF p.y > PLAYER_SPEED
            THEN [p EXCEPT !.y = p.y - PLAYER_SPEED] ELSE p
      [] direction = "a" ->
            IF p.x > PLAYER_SPEED
            THEN [p EXCEPT !.x = p.x - PLAYER_SPEED] ELSE p
      [] direction = "s" ->
            IF p.y < CANVAS_HEIGHT - PLAYER_SIZE - PLAYER_SPEED
            THEN [p EXCEPT !.y = p.y + PLAYER_SPEED] ELSE p
      [] direction = "d" ->
            IF p.x < CANVAS_WIDTH - PLAYER_SIZE - PLAYER_SPEED
            THEN [p EXCEPT !.x = p.x + PLAYER_SPEED] ELSE p
      [] OTHER -> p

\* HashMap::insert, HashMap::remove and the get_mut/update of a Move, on the
\* players map (a function from the ids present to their records).
InsertPlayer(map, p) ==
    [k \in (DOMAIN map) \cup {p.id} |-> IF k = p.id THEN p ELSE map[k]]

RemovePlayer(map, id) == [k \in (DOMAIN map) \ {id} |-> map[k]]

MutatePlayer(map, id, direction) ==
    IF id \in DOMAIN map
    THEN [map EXCEPT ![id] = MovePlayer(@, direction)]
    ELSE map

\* An encoding that leaves one player of the state out.
ServerMessagePartial(map) ==
    IF DOMAIN map = {}
    THEN [game_state |-> [players |-> map]]
    ELSE LET d == CHOOSE k \in DOMAIN map : TRUE
         IN  [game_state |->
                [players |-> [k \in (DOMAIN map) \ {d} |-> map[k]]]]

\* serde_json::to_string(&ServerMessage { game_state: state.clone() })
ServerMessage(map) == [game_state |-> [players |-> map]]

EmptyMap == [k \in {} |-> None]

\* ------------------------------------------------------------ state
VARIABLES
    players,      \* game_state.players
    clients,      \* keys of the clients map (each holds that session's sender)
    chan,         \* per connection: frames queued on its unbounded channel
    rxOpen,       \* per connection: its channel's receiver is alive
    stateLock,    \* holder of the game_state mutex, or None
    clientsLock,  \* holder of the clients mutex, or None
    pc,           \* per connection: position of its session task
    site,         \* per connection: which call of broadcast_game_state runs
    snap,         \* per connection: the encoded state it holds (or None)
    dir,          \* per connection: direction of the Move being processed
    loc,          \* per connection: the record get_mut handed to the Move
    fwd,          \* per connection: state of its forward task
    nframes,      \* inbound frames read so far
    serial,       \* the mutations completed so far, applied one after another
    owed,         \* connections not yet sent a frame of the current state
    initSent,     \* per connection: its initial snapshot went out (line 120)
    listening     \* the accept loop of main runs

vars == <<players, clients, chan, rxOpen, stateLock, clientsLock, pc, site,
          snap, dir, loc, fwd, nframes, serial, owed, initSent, listening>>

Init ==
    /\ players = EmptyMap
    /\ clients = {}
    /\ chan = [c \in Addrs |-> <<>>]
    /\ rxOpen = [c \in Addrs |-> FALSE]
    /\ stateLock = None
    /\ clientsLock = None
    /\ pc = [c \in Addrs |-> "idle"]
    /\ site = [c \in Addrs |-> "none"]
    /\ snap = [c \in Addrs |-> None]
    /\ dir = [c \in Addrs |-> "x"]
    /\ loc = [c \in Addrs |-> None]
    /\ fwd = [c \in Addrs |-> "none"]
    /\ nframes = 0
    /\ serial = EmptyMap
    /\ owed = {}
    /\ initSent = [c \in Addrs |-> FALSE]
    /\ listening = TRUE

\* ------------------------------------------------------------ locks
\* A game_state whose critical sections do not exclude one another.
StateLockIgnored(c) == TRUE

\* game_state.lock(): the caller waits until no task holds the mutex.
StateLockFree(c) == stateLock = None

\* clients.lock()
ClientsLockFree(c) == clientsLock = None

\* ------------------------------------------------------------ broadcast
\* A loop that gives up at the first send that fails (here: sends nothing
\* when some entry's receiver is gone).
SendAllAbortsOnError(queues, frame) ==
    IF \E k \in clients : ~rxOpen[k]
    THEN queues
    ELSE [k \in Addrs |-> IF k \in clients THEN Append(queues[k], frame)
                                           ELSE queues[k]]

\* Lines 228-232: the loop of broadcast_game_state over the clients map:
\* client.send on every entry; a send fails when the receiver is gone, and
\* is skipped.
SendAll(queues, frame) ==
    [k \in Addrs |->
        IF k \in clients /\ rxOpen[k] THEN Append(queues[k], frame)
                                      ELSE queues[k]]

\* A broadcast that hands a failed client.send to its caller as Err.
BroadcastResultPropagates ==
    IF \E k \in clients : ~rxOpen[k] THEN "Err" ELSE "Ok"

\* The Result broadcast_game_state returns: encoding a GameState does not
\* fail, and a failed client.send is only printed (line 235).
BroadcastResult == "Ok"

\* Where the caller goes on after broadcast_game_state(..).await? returned.
AfterBroadcast(c) ==
    IF BroadcastResult = "Err" THEN "ret_err"
    ELSE CASE site[c] = "join"  -> "recv"
           [] site[c] = "move"  -> "recv"
           [] site[c] = "close" -> "abort"

\* ------------------------------------------------------------ bookkeeping
\* The connections a broadcast can reach: registered, with a live receiver.
Reachable == {k \in clients : rxOpen[k]}

\* owed after a step that leaves the state new: when it differs from the
\* state before, every connection a broadcast can reach is owed a frame of it.
OwedAfter(new) == IF new # players THEN owed \cup Reachable ELSE owed

\* ------------------------------------------------------------ session
\* A step of a session runs from one point where another task can observe
\* or change the shared state to the next: each critical section is one
\* step, and the frame or result a task awaited arrives with the step that
\* uses it.
\*
\* main accepts the connection and spawns its task; handle_connection
\* builds the player and, under the game_state lock, inserts it (lines
\* 58-97).
Connect(c) ==
    /\ listening
    /\ pc[c] = "idle"
    /\ Cardinality({k \in Addrs : pc[k] # "idle"}) < MaxSessions
    /\ StateLockFree(c)
    /\ players' = InsertPlayer(players, NewPlayer(c))
    /\ serial' = InsertPlayer(serial, NewPlayer(c))
    /\ owed' = OwedAfter(players')
    /\ pc' = [pc EXCEPT ![c] = "handshake"]
    /\ UNCHANGED <<clients, chan, rxOpen, stateLock, clientsLock, site, snap,
                   dir, loc, fwd, nframes,
                   initSent, listening>>

\* Line 100: accept_async(stream).await? yields Err and the function
\* returns.
HandshakeFail(c) ==
    /\ listening
    /\ pc[c] = "handshake"
    /\ pc' = [pc EXCEPT ![c] = "ret_err"]
    /\ UNCHANGED <<players, clients, chan, rxOpen, stateLock, clientsLock,
                   site, snap, dir, loc, fwd, nframes, serial,
                   owed,
                   initSent, listening>>

\* Lines 100-110: the handshake succeeds; the channel is created and, under
\* the clients lock, its sender is inserted.
Register(c) ==
    /\ listening
    /\ pc[c] = "handshake"
    /\ ClientsLockFree(c)
    /\ rxOpen' = [rxOpen EXCEPT ![c] = TRUE]
    /\ clients' = clients \cup {c}
    /\ pc' = [pc EXCEPT ![c] = "init_snap"]
    /\ UNCHANGED <<players, chan, stateLock, clientsLock, site, snap, dir,
                   loc, fwd, nframes, serial,
                   owed,
                   initSent, listening>>

\* Lines 113-118: under the game_state lock, encode a clone of the state.
InitSnap(c) ==
    /\ listening
    /\ pc[c] = "init_snap"
    /\ StateLockFree(c)
    /\ snap' = [snap EXCEPT ![c] = ServerMessage(players)]
    /\ pc' = [pc EXCEPT ![c] = "init_send"]
    /\ UNCHANGED <<players, clients, chan, rxOpen, stateLock, clientsLock,
                   site, dir, loc, fwd, nframes, serial,
                   owed,
                   initSent, listening>>

\* Line 120: tx.send(initial_state).await? ; on Ok line 123 calls the
\* broadcast.
InitSend(c) ==
    /\ listening
    /\ pc[c] = "init_send"
    /\ snap' = [snap EXCEPT ![c] = None]
    /\ initSent' = [initSent EXCEPT ![c] = TRUE]
    /\ site' = [site EXCEPT ![c] = "join"]
    /\ pc' = [pc EXCEPT ![c] = "bc_snap"]
    /\ UNCHANGED <<players, clients, chan, rxOpen, stateLock, clientsLock,
                   dir, loc, fwd, nframes, serial,
                   owed,
                   listening>>

\* On Err the function returns: its client_receiver is dropped with the
\* frames queued on it.
InitSendFail(c) ==
    /\ listening
    /\ pc[c] = "init_send"
    /\ snap' = [snap EXCEPT ![c] = None]
    /\ rxOpen' = [rxOpen EXCEPT ![c] = FALSE]
    /\ owed' = owed \ {c}
    /\ chan' = [chan EXCEPT ![c] = <<>>]
    /\ pc' = [pc EXCEPT ![c] = "ret_err"]
    /\ UNCHANGED <<players, clients, stateLock, clientsLock, site, dir, loc,
                   fwd, nframes, serial,
                   initSent, listening>>

\* ------------------------------------------------------------ broadcast_game_state
\* A broadcast that keeps the game_state lock while it sends.
SnapKeepsLock(c) == c

\* Line 223: the holder of the game_state lock once the snapshot block of
\* the broadcast is left.
SnapRelease(c) == None

\* An outbound channel that takes one frame and makes the sender wait for
\* the forward task before the next.
ChannelBounded(k) == Len(chan[k]) < 1

\* Lines 104 and 229: send on an unbounded channel never waits for room.
ChannelAccepts(k) == TRUE

\* Lines 218-223: under the game_state lock, encode a clone of the state.
BcSnap(c) ==
    /\ listening
    /\ pc[c] = "bc_snap"
    /\ StateLockFree(c)
    /\ snap' = [snap EXCEPT ![c] = ServerMessage(players)]
    /\ stateLock' = SnapRelease(c)
    /\ pc' = [pc EXCEPT ![c] = "bc_send"]
    /\ UNCHANGED <<players, clients, chan, rxOpen, clientsLock,
                   site, dir, loc, fwd, nframes, serial,
                   owed,
                   initSent, listening>>

\* Line 227: the broadcast takes the clients lock.
BcLock(c) ==
    /\ listening
    /\ pc[c] = "bc_send"
    /\ ClientsLockFree(c)
    /\ clientsLock' = c
    /\ UNCHANGED <<players, clients, chan, rxOpen, stateLock, pc, site, snap,
                   dir, loc, fwd, nframes, serial, owed, initSent, listening>>

\* Lines 228-235: holding the clients lock, send the frame to every entry,
\* release the lock and return to the caller.  After the call at line 123 the caller spawns
\* its forward task (line 126) and enters the inbound loop; after line 173
\* it reads the next frame; after line 208 it goes on to abort the forward
\* task.  A caller that returns on Err before line 126 drops its receiver.
BcSend(c) ==
    /\ listening
    /\ pc[c] = "bc_send"
    /\ clientsLock = c
    /\ \A k \in clients : ChannelAccepts(k)
    /\ clientsLock' = None
    /\ snap' = [snap EXCEPT ![c] = None]
    /\ pc' = [pc EXCEPT ![c] = AfterBroadcast(c)]
    /\ site' = [site EXCEPT ![c] = "none"]
    /\ owed' = IF snap[c] = ServerMessage(players) THEN owed \ Reachable
                                               ELSE owed
    /\ IF AfterBroadcast(c) = "recv" /\ site[c] = "join"
       THEN /\ fwd' = [fwd EXCEPT ![c] = "running"]
            /\ chan' = SendAll(chan, snap[c])
            /\ UNCHANGED rxOpen
       ELSE IF AfterBroadcast(c) = "ret_err" /\ fwd[c] = "none"
            THEN /\ rxOpen' = [rxOpen EXCEPT ![c] = FALSE]
                 /\ chan' = [SendAll(chan, snap[c]) EXCEPT ![c] = <<>>]
                 /\ UNCHANGED fwd
            ELSE /\ chan' = SendAll(chan, snap[c])
                 /\ UNCHANGED <<fwd, rxOpen>>
    /\ UNCHANGED <<players, clients, stateLock, dir, loc, nframes, serial,
                   initSent, listening>>

\* ------------------------------------------------------------ inbound loop
\* Lines 136-145: rx.next().await yields a Move{direction} text frame; the
\* task locks game_state and looks its own player up with get_mut.
MvGet(c) ==
    /\ listening
    /\ pc[c] = "recv"
    /\ nframes < MaxFrames
    /\ StateLockFree(c)
    /\ \E d \in SessionDirections : dir' = [dir EXCEPT ![c] = d]
    /\ nframes' = nframes + 1
    /\ stateLock' = c
    /\ loc' = [loc EXCEPT ![c] = IF PlayerId(c) \in DOMAIN players
                                 THEN players[PlayerId(c)] ELSE None]
    /\ pc' = [pc EXCEPT ![c] = "mv_put"]
    /\ UNCHANGED <<players, clients, chan, rxOpen, clientsLock, site, snap,
                   fwd, serial,
                   owed,
                   initSent, listening>>

\* A Move that keeps the game_state lock when it goes on to the broadcast.
MoveKeepsLock(c) == c

\* Line 170: the holder of the game_state lock once the block of the Move
\* is left.
MoveRelease(c) == None

\* Lines 146-170: the player is updated if it was there, and the lock is
\* released; line 173 then calls the broadcast.
MvPut(c) ==
    /\ listening
    /\ pc[c] = "mv_put"
    /\ players' = IF loc[c] = None \/ PlayerId(c) \notin DOMAIN players
                  THEN players
                  ELSE [players EXCEPT
                           ![PlayerId(c)] = MovePlayer(loc[c], dir[c])]
    /\ serial' = MutatePlayer(serial, PlayerId(c), dir[c])
    /\ owed' = OwedAfter(players')
    /\ loc' = [loc EXCEPT ![c] = None]
    /\ dir' = [dir EXCEPT ![c] = "x"]
    /\ stateLock' = MoveRelease(c)
    /\ site' = [site EXCEPT ![c] = "move"]
    /\ pc' = [pc EXCEPT ![c] = "bc_snap"]
    /\ UNCHANGED <<clients, chan, rxOpen, clientsLock, snap, fwd,
                   nframes,
                   initSent, listening>>

\* An inbound loop that answers every frame with a broadcast.
AfterOtherBroadcasts(c) == "bc_snap"

\* Lines 175-183: where the inbound loop goes on after a frame that is not
\* a Move.
AfterOther(c) == "recv"

\* Lines 175-183 and 139: a Join frame, a text frame that does not decode,
\* or a frame that is not text: printed or ignored, and the loop reads the
\* next frame.
RecvOther(c) ==
    /\ listening
    /\ pc[c] = "recv"
    /\ nframes < MaxFrames
    /\ nframes' = nframes + 1
    /\ \E kind \in {"Join", "undecodable", "binary"} :
          /\ pc' = [pc EXCEPT ![c] = AfterOther(c)]
          /\ site' = [site EXCEPT ![c] = IF AfterOther(c) = "recv"
                                         THEN site[c] ELSE "move"]
    /\ UNCHANGED <<players, clients, chan, rxOpen, stateLock, clientsLock,
                   snap, dir, loc, fwd, serial,
                   owed,
                   initSent, listening>>

\* ------------------------------------------------------------ close
\* Lines 136, 185-199: the stream ends (None) or yields Err, the loop is
\* left and, under the game_state lock, the own player id is removed.
RmPlayer(c) ==
    /\ listening
    /\ pc[c] = "recv"
    /\ StateLockFree(c)
    /\ players' = RemovePlayer(players, PlayerId(c))
    /\ serial' = RemovePlayer(serial, PlayerId(c))
    /\ owed' = OwedAfter(players')
    /\ pc' = [pc EXCEPT ![c] = "deregister"]
    /\ UNCHANGED <<clients, chan, rxOpen, stateLock, clientsLock, site, snap,
                   dir, loc, fwd, nframes,
                   initSent, listening>>

\* Lines 202-205: under the clients lock, remove the own address; line 208
\* then calls the broadcast.
Deregister(c) ==
    /\ listening
    /\ pc[c] = "deregister"
    /\ ClientsLockFree(c)
    /\ clients' = clients \ {c}
    /\ owed' = owed \ {c}
    /\ site' = [site EXCEPT ![c] = "close"]
    /\ pc' = [pc EXCEPT ![c] = "bc_snap"]
    /\ UNCHANGED <<players, chan, rxOpen, stateLock, clientsLock, snap, dir,
                   loc, fwd, nframes, serial,
                   initSent, listening>>

\* Lines 211-213: forward_task.abort() and return Ok(()).  Aborting a task
\* that still runs drops its receiver and the frames queued on it; whether
\* it was running, had ended or had failed, the task is over.
Abort(c) ==
    /\ listening
    /\ pc[c] = "abort"
    /\ fwd' = [fwd EXCEPT ![c] = "over"]
    /\ rxOpen' = [rxOpen EXCEPT ![c] = FALSE]
    /\ owed' = owed \ {c}
    /\ chan' = [chan EXCEPT ![c] = <<>>]
    /\ pc' = [pc EXCEPT ![c] = "ret_ok"]
    /\ UNCHANGED <<players, clients, stateLock, clientsLock, site, snap, dir,
                   loc, nframes, serial,
                   initSent, listening>>

\* ------------------------------------------------------------ forward task
\* A channel whose recv() hands out the newest frame queued.
RestDropsNewest(q) == SubSeq(q, 1, Len(q) - 1)

\* Line 127: what stays queued once client_receiver.recv() has handed out
\* a frame: the channel hands out the oldest.
Rest(q) == Tail(q)

\* Lines 127-128: the task takes the next frame of the channel and writes
\* it to the socket.
FwdWrite(c) ==
    /\ listening
    /\ fwd[c] = "running"
    /\ chan[c] # <<>>
    /\ chan' = [chan EXCEPT ![c] = Rest(@)]
    /\ UNCHANGED <<players, clients, rxOpen, stateLock, clientsLock, pc, site,
                   snap, dir, loc, fwd, nframes, serial,
                   owed,
                   initSent, listening>>

\* Lines 128-131: the write fails; the loop breaks and the task ends, which
\* drops the receiver and the frames queued on it.
FwdWriteFail(c) ==
    /\ listening
    /\ fwd[c] = "running"
    /\ chan[c] # <<>>
    /\ fwd' = [fwd EXCEPT ![c] = "failed"]
    /\ rxOpen' = [rxOpen EXCEPT ![c] = FALSE]
    /\ owed' = owed \ {c}
    /\ chan' = [chan EXCEPT ![c] = <<>>]
    /\ UNCHANGED <<players, clients, stateLock, clientsLock, pc, site, snap,
                   dir, loc, nframes, serial,
                   initSent, listening>>

\* Line 127: recv() yields None once the channel is empty and its only
\* sender, the entry of the clients map, is gone: the loop and the task end.
FwdEnd(c) ==
    /\ listening
    /\ fwd[c] = "running"
    /\ chan[c] = <<>>
    /\ c \notin clients
    /\ fwd' = [fwd EXCEPT ![c] = "ended"]
    /\ rxOpen' = [rxOpen EXCEPT ![c] = FALSE]
    /\ owed' = owed \ {c}
    /\ UNCHANGED <<players, clients, chan, stateLock, clientsLock, pc, site,
                   snap, dir, loc, nframes, serial,
                   initSent, listening>>

\* ------------------------------------------------------------ listener
\* Line 58: listener.accept() yields Err; the while-let loop ends and main
\* returns, which shuts the runtime down and ends the process: every task
\* is dropped where it stands ("exit"), and the shared state, the channels
\* and the sockets go with it.  Nothing of the server takes a step any more.
AcceptFail ==
    /\ listening
    /\ listening' = FALSE
    /\ pc' = [c \in Addrs |-> "exit"]
    /\ players' = EmptyMap
    /\ clients' = {}
    /\ chan' = [c \in Addrs |-> <<>>]
    /\ rxOpen' = [c \in Addrs |-> FALSE]
    /\ stateLock' = None
    /\ clientsLock' = None
    /\ site' = [c \in Addrs |-> "none"]
    /\ snap' = [c \in Addrs |-> None]
    /\ dir' = [c \in Addrs |-> "x"]
    /\ loc' = [c \in Addrs |-> None]
    /\ fwd' = [c \in Addrs |-> "over"]
    /\ nframes' = 0
    /\ serial' = EmptyMap
    /\ owed' = {}
    /\ initSent' = [c \in Addrs |-> FALSE]

\* ------------------------------------------------------------ specification
Next ==
    \/ AcceptFail
    \/ \E c \in Addrs :
        \/ Connect(c) \/ HandshakeFail(c) \/ Register(c) \/ InitSnap(c)
        \/ InitSend(c) \/ InitSendFail(c)
        \/ BcSnap(c) \/ BcLock(c) \/ BcSend(c)
        \/ MvGet(c) \/ MvPut(c) \/ RecvOther(c)
        \/ RmPlayer(c) \/ Deregister(c) \/ Abort(c)
        \/ FwdWrite(c) \/ FwdWriteFail(c) \/ FwdEnd(c)

Spec == Init /\ [][Next]_vars

\* ------------------------------------------------------------ the store alone
\* The three operations of the sessions on game_state, each under its lock
\* and so one step: the insert of lines 94-97, the Move of lines 143-170 and
\* the remove of lines 196-199, without the network around them.  A session
\* is "recv" between its insert and its remove.
StoreConnect(c) ==
    /\ pc[c] = "idle"
    /\ players' = InsertPlayer(players, NewPlayer(c))
    /\ serial' = InsertPlayer(serial, NewPlayer(c))
    /\ pc' = [pc EXCEPT ![c] = "recv"]
    /\ UNCHANGED <<clients, chan, rxOpen, stateLock, clientsLock, site, snap,
                   dir, loc, fwd, nframes,
                   owed,
                   initSent, listening>>

StoreMove(c) ==
    /\ pc[c] = "recv"
    /\ c \in Walkers \/ nframes < MaxStoreMoves
    /\ \E d \in Directions :
          /\ players' = MutatePlayer(players, PlayerId(c), d)
          /\ serial' = MutatePlayer(serial, PlayerId(c), d)
    /\ nframes' = IF c \in Walkers THEN nframes ELSE nframes + 1
    /\ UNCHANGED <<clients, chan, rxOpen, stateLock, clientsLock, pc, site,
                   snap, dir, loc, fwd,
                   owed,
                   initSent, listening>>

StoreClose(c) ==
    /\ pc[c] = "recv"
    /\ players' = RemovePlayer(players, PlayerId(c))
    /\ serial' = RemovePlayer(serial, PlayerId(c))
    /\ pc' = [pc EXCEPT ![c] = "ret_ok"]
    /\ UNCHANGED <<clients, chan, rxOpen, stateLock, clientsLock, site, snap,
                   dir, loc, fwd, nframes,
                   owed,
                   initSent, listening>>

NextStore ==
    \E c \in Addrs : StoreConnect(c) \/ StoreMove(c) \/ StoreClose(c)

SpecStore == Init /\ [][NextStore]_vars

\* ------------------------------------------------------------ claims
InBounds(p) ==
    /\ 0 <= p.x /\ p.x <= CANVAS_WIDTH - PLAYER_SIZE
    /\ 0 <= p.y /\ p.y <= CANVAS_HEIGHT - PLAYER_SIZE

\* C1: in every reachable state every player of the world lies in the
\* canvas: 0 <= x <= 750 and 0 <= y <= 550, with no coordinate below 0 (no
\* u32 subtraction underflowed), from the spawn on and after every Move.
C1_PlayersInBounds ==
    \A id \in DOMAIN players : InBounds(players[id])

\* A player that walked from its spawn to the last column and row the
\* guards of Move let it reach, and one at the first.
C1_Witness ==
    \E id \in DOMAIN players :
        \/ players[id].x >= CANVAS_WIDTH - PLAYER_SIZE - PLAYER_SPEED
           /\ players[id].y >= CANVAS_HEIGHT - PLAYER_SIZE - PLAYER_SPEED
        \/ players[id].x <= PLAYER_SPEED /\ players[id].y <= PLAYER_SPEED

\* The result the spec gives for a Move: the displacement, clamped.
Min(a, b) == IF a < b THEN a ELSE b
Max(a, b) == IF a > b THEN a ELSE b

ClampedMove(p, direction) ==
    CASE direction = "w" -> [p EXCEPT !.y = Max(p.y - PLAYER_SPEED, 0)]
      [] direction = "a" -> [p EXCEPT !.x = Max(p.x - PLAYER_SPEED, 0)]
      [] direction = "s" ->
            [p EXCEPT !.y = Min(p.y + PLAYER_SPEED, CANVAS_HEIGHT - PLAYER_SIZE)]
      [] direction = "d" ->
            [p EXCEPT !.x = Min(p.x + PLAYER_SPEED, CANVAS_WIDTH - PLAYER_SIZE)]
      [] OTHER -> p

\* C8: a Move w/a/s/d on a present player displaces it by PLAYER_SPEED on
\* the axis of the direction and clamps the result into the canvas: d gives
\* min(x + 5, 750), a gives max(x - 5, 0), s gives min(y + 5, 550), w gives
\* max(y - 5, 0).
C8_MoveClamps ==
    \A id \in DOMAIN players : \A d \in {"w", "a", "s", "d"} :
        MovePlayer(players[id], d) = ClampedMove(players[id], d)

\* The session of c has returned from handle_connection.
Returned(c) == pc[c] \in {"ret_ok", "ret_err"}

\* The session of c is in its inbound loop: joined and not yet closing.
Active(c) ==
    \/ pc[c] \in {"recv", "mv_put"}
    \/ pc[c] \in {"bc_snap", "bc_send"} /\ site[c] = "move"

\* No session is between two of its steps: each waits for a connection or
\* a frame of its client, or has returned.
Quiescent == \A c \in Addrs : pc[c] \in {"idle", "recv", "ret_ok", "ret_err"}

PlayersOf(frame) == DOMAIN frame.game_state.players

\* C2: once the session of a connection has returned, by any path, its
\* player id is absent from the world state (and so from every snapshot
\* taken afterwards) and the registry holds no entry for it.
C2_ReturnedIsGone ==
    \A c \in Addrs :
        Returned(c) => PlayerId(c) \notin DOMAIN players /\ c \notin clients

\* C3: the world state is the one obtained by applying the mutations
\* completed so far one after the other: no Move of one connection is lost
\* or overwritten by the concurrent Move of another.
C3_NoLostUpdate == players = serial

\* Two connections with different players have both moved theirs.
C3_Witness ==
    \E c, k \in Addrs :
        /\ PlayerId(c) # PlayerId(k)
        /\ PlayerId(c) \in DOMAIN players /\ PlayerId(k) \in DOMAIN players
        /\ players[PlayerId(c)].x = NewPlayer(c).x + PLAYER_SPEED
        /\ players[PlayerId(k)].x = NewPlayer(k).x + PLAYER_SPEED

\* C4: after every change of the world state a broadcast of a snapshot
\* taken at or after it is enqueued on every registered connection: once
\* no session has a step left to take, no connection is owed a frame.
C4_EveryChangeIsBroadcast == Quiescent => owed = {}

\* C5: a failed write of the forward loop closes the session: once no
\* session has a step left to take without a further frame, the player and
\* the registry entry of a connection whose forward loop failed are gone.
C5_WriteFailureCloses ==
    Quiescent =>
        \A c \in Addrs :
            fwd[c] = "failed" =>
                PlayerId(c) \notin DOMAIN players /\ c \notin clients

\* C6: the final broadcast of a closing connection A runs after A left the
\* world and the registry: its snapshot does not hold A's player and, taken
\* with only A and one other connection B in its inbound loop, holds
\* exactly B's player; its frame goes to every remaining connection and not
\* to A; and A's forward task is cancelled only after it.
C6_FinalBroadcast ==
    [][\A a \in Addrs :
          /\ (pc[a] = "bc_snap" /\ site[a] = "close" /\ pc'[a] = "bc_send") =>
                /\ a \notin clients
                /\ PlayerId(a) \notin PlayersOf(snap'[a])
                /\ \A b \in Addrs \ {a} :
                      (Active(b) /\ \A k \in Addrs \ {a, b} : pc[k] = "idle")
                          => PlayersOf(snap'[a]) = {PlayerId(b)}
          /\ (pc[a] = "bc_send" /\ site[a] = "close"
                /\ pc'[a] \in {"abort", "ret_err"}) =>
                /\ chan'[a] = chan[a]
                /\ fwd[a] # "over"
                /\ \A b \in Reachable : chan'[b] = Append(chan[b], snap[a])]_vars

\* C7: the initial snapshot of a joining connection holds its own player
\* and the player of every connection that is in its inbound loop when the
\* snapshot is taken.
C7_InitialSnapshot ==
    [][\A c \in Addrs :
          (pc[c] = "init_snap" /\ pc'[c] = "init_send") =>
              /\ PlayerId(c) \in PlayersOf(snap'[c])
              /\ \A b \in Addrs :
                    Active(b) => PlayerId(b) \in PlayersOf(snap'[c])]_vars

\* k Moves of one direction, one after the other, on one player record.
RECURSIVE MoveTimes(_, _, _)
MoveTimes(p, direction, k) ==
    IF k = 0 THEN p ELSE MoveTimes(MovePlayer(p, direction), direction, k - 1)

\* The connection of port 1200 spawns at (100,100) with the first colour of
\* the palette, and five Moves d take it to (125,100); after j Moves d that
\* added 5j to x, one more that passes the comparison of line 163 adds 5
\* again and leaves the rest of the record, so k of them add 5k; and a Move
\* of any direction on the spawned record leaves the coordinate it does not
\* name, the id and the colour.
C9_SuccessiveMoves(a) ==
    /\ a.port = 1200 =>
          /\ NewPlayer(a) = [id |-> PlayerId(a), x |-> 100, y |-> 100,
                             color |-> "#FF0000"]
          /\ MoveTimes(NewPlayer(a), "d", 5) = [NewPlayer(a) EXCEPT !.x = 125]
    /\ \A j \in 0..(CANVAS_WIDTH \div PLAYER_SPEED) :
          LET p == [NewPlayer(a) EXCEPT !.x = @ + PLAYER_SPEED * j]
          IN  p.x < CANVAS_WIDTH - PLAYER_SIZE - PLAYER_SPEED
                 => MovePlayer(p, "d") = [p EXCEPT !.x = @ + PLAYER_SPEED]
    /\ \A d \in Directions :
          LET p == NewPlayer(a)
              q == MovePlayer(p, d)
          IN  /\ q.id = p.id /\ q.color = p.color
              /\ d \in {"a", "d"} => q.y = p.y
              /\ d \in {"w", "s"} => q.x = p.x
              /\ d \notin {"w", "a", "s", "d"} => q = p

\* The step of connection c that applies its Move changes nothing but the
\* coordinate its direction names, in the record of c's own player.
C9_MoveStep(c) ==
    (pc[c] = "mv_put" /\ pc'[c] = "bc_snap") =>
        /\ C9_SuccessiveMoves(c)
        /\ clients' = clients
        /\ DOMAIN players' = DOMAIN players
        /\ \A id \in DOMAIN players \ {PlayerId(c)} : players'[id] = players[id]
        /\ PlayerId(c) \in DOMAIN players =>
              LET p == players[PlayerId(c)]
                  q == players'[PlayerId(c)]
              IN  /\ q.id = p.id /\ q.color = p.color
                  /\ dir[c] \in {"a", "d"} => q.y = p.y
                  /\ dir[c] \in {"w", "s"} => q.x = p.x
                  /\ dir[c] \notin {"w", "a", "s", "d"} => q = p
                  /\ (dir[c] = "d"
                        /\ p.x < CANVAS_WIDTH - PLAYER_SIZE - PLAYER_SPEED)
                        => q.x = p.x + PLAYER_SPEED

\* C9: a Move of connection c changes only the coordinate of c's own player
\* that its direction names; id, colour, the other coordinate, every other
\* player and the registry stay.  From the spawn (100,100) of palette colour
\* 0, five Moves d end at x = 125, y = 100, and k successive Moves d short
\* of the boundary add exactly 5k to x.
C9_MoveChangesOneCoordinate == [][\A c \in Addrs : C9_MoveStep(c)]_vars

\* A connection has moved its player one step to the right of its spawn.
C9_Witness ==
    \E c \in Addrs :
        /\ pc[c] = "bc_snap" /\ site[c] = "move"
        /\ PlayerId(c) \in DOMAIN players
        /\ players[PlayerId(c)] =
              [NewPlayer(c) EXCEPT !.x = @ + PLAYER_SPEED]

\* C10: a broadcast that meets a registered connection whose channel is
\* closed skips it: the frame is still enqueued on every other registered
\* connection, the closed one gets nothing, and the caller goes on as after
\* any broadcast (its session is not closed).
C10_FailedSendIsSkipped ==
    [][\A c \in Addrs :
          (/\ pc[c] = "bc_send" /\ pc'[c] \in {"recv", "abort", "ret_err"}
           /\ \E k \in clients : ~rxOpen[k]) =>
              /\ \A k \in clients :
                    chan'[k] = IF rxOpen[k] THEN Append(chan[k], snap[c])
                                            ELSE chan[k]
              /\ pc'[c] = IF site[c] = "close" THEN "abort" ELSE "recv"]_vars

\* A broadcast is about to send to a registry that holds a connection whose
\* channel is closed and another whose channel is open.
C10_Witness ==
    \E c \in Addrs :
        /\ pc[c] = "bc_send"
        /\ \E k, j \in clients : k # j /\ ~rxOpen[k] /\ rxOpen[j]

\* A connection is live from its accept to the return of its session.
Live(c) == pc[c] \notin {"idle", "ret_ok", "ret_err", "exit"}

\* C11: no failure of one connection stops the listener: whatever failed
\* (an accept, a handshake, an initial send), the accept loop still runs,
\* so later connections are accepted and no session was dropped with the
\* runtime.
C11_ListenerSurvives ==
    /\ listening
    /\ \A c \in Addrs : pc[c] # "exit"

\* C12: two distinct live connections (distinct remote socket addresses)
\* have distinct player ids, so that each has a record of its own in the
\* world.
C12_UniquePlayerIds ==
    \A c, k \in Addrs :
        (c # k /\ Live(c) /\ Live(k)) => PlayerId(c) # PlayerId(k)

\* Connection a takes a step of its session or of its forward task, other
\* than the accept that creates its player.
ActsAfterConnect(a) ==
    /\ pc[a] # "idle"
    /\ pc'[a] # "exit"
    /\ pc'[a] # pc[a] \/ fwd'[a] # fwd[a] \/ chan'[a] # chan[a]

\* C13: no step of connection a (a Move, a failure, its close) changes or
\* removes the player record or the registry entry of a different live
\* connection b.
C13_OthersUntouched ==
    [][\A a, b \in Addrs :
          (a # b /\ ActsAfterConnect(a) /\ Live(b) /\ pc'[b] = pc[b]) =>
              /\ PlayerId(b) \in DOMAIN players =>
                    /\ PlayerId(b) \in DOMAIN players'
                    /\ players'[PlayerId(b)] = players[PlayerId(b)]
              /\ b \in clients => b \in clients']_vars

\* C14: the step in which the inbound loop of c reads a frame that is not
\* a Move (a Join, a text that does not decode) leaves the world, the
\* registry and every channel as they are, starts no broadcast, and leaves
\* c in its inbound loop, ready for the next frame.
C14_NonMoveFrameIsNoOp ==
    [][\A c \in Addrs :
          (/\ pc[c] = "recv" /\ nframes' = nframes + 1
           /\ pc'[c] # "mv_put"
           /\ \A k \in Addrs \ {c} : pc'[k] = pc[k]) =>
              /\ pc'[c] = "recv"
              /\ players' = players /\ clients' = clients
              /\ chan' = chan /\ snap' = snap /\ site' = site
              /\ rxOpen' = rxOpen /\ fwd' = fwd]_vars

\* The only session has read a frame after its join, the frame its join
\* broadcast enqueued still waits on its channel, and no broadcast runs.
C14_Witness ==
    \E c \in Addrs :
        /\ pc[c] = "recv" /\ nframes = 1
        /\ \A k \in Addrs \ {c} : pc[k] = "idle"
        /\ fwd[c] = "running" /\ Len(chan[c]) = 1
        /\ players[PlayerId(c)] = NewPlayer(c)

\* The session of c holds no lock.
HoldsNoLock(c) == stateLock # c /\ clientsLock # c

\* The step in which the broadcast of c sends its frame on the channels of
\* the registry and returns to its caller.
EnqueueStep(c) ==
    pc[c] = "bc_send" /\ pc'[c] \in {"recv", "abort", "ret_err"}

\* The step in which the session of c leaves a network operation: the
\* handshake, the write of the initial snapshot, the read of a frame.
NetworkStep(c) ==
    /\ pc[c] \in {"handshake", "init_send", "recv"}
    /\ pc'[c] \notin {pc[c], "exit"}

\* C15: a session that performs a network operation or a channel operation
\* (here the enqueue of a broadcast) holds neither the game_state lock nor
\* the clients lock, and a session that waits at a suspension point holds
\* none.
C15_NoLockAtNetworkOrChannel ==
    [][\A c \in Addrs :
          /\ pc[c] \in {"handshake", "init_send", "recv"} => HoldsNoLock(c)
          /\ NetworkStep(c) => HoldsNoLock(c)
          /\ EnqueueStep(c) => HoldsNoLock(c)]_vars

\* C15 as amended: a session holds the game_state lock only inside the
\* block of a Move and the clients lock only inside the send loop of a
\* broadcast, so it holds none at a suspension point nor when it performs a
\* network operation; the enqueue of a broadcast is performed holding the
\* clients lock and not the game_state lock.
C15_LocksOnlyInCriticalSections ==
    [][\A c \in Addrs :
          /\ pc[c] # "mv_put" => stateLock # c
          /\ pc[c] # "bc_send" => clientsLock # c
          /\ NetworkStep(c) => HoldsNoLock(c)
          /\ EnqueueStep(c) => clientsLock = c /\ stateLock # c]_vars

\* A broadcast holds the clients lock and is about to enqueue, while
\* another session waits for a frame of its client.
C15_Witness ==
    \E c, k \in Addrs :
        /\ c # k
        /\ pc[c] = "bc_send" /\ clientsLock = c
        /\ pc[k] = "recv"

\* C16: a broadcast never waits for a forward task: whatever the backlog
\* of the channels, a broadcast that holds the clients lock can send and
\* release it, a broadcast that finds the lock free can take it, the holder
\* of the lock is always a broadcast in its send loop, and a session that
\* waits for a frame can process a Move as soon as the game_state lock is
\* free.
C16_NoBackpressure ==
    \A c \in Addrs :
        /\ (pc[c] = "bc_send" /\ clientsLock = c) => ENABLED BcSend(c)
        /\ (pc[c] = "bc_send" /\ clientsLock = None) => ENABLED BcLock(c)
        /\ clientsLock = c => pc[c] = "bc_send"
        /\ (pc[c] = "recv" /\ nframes < MaxFrames /\ stateLock = None)
              => ENABLED MvGet(c)

\* The forward task of one connection has written none of the two frames
\* queued on its channel, and the broadcast of another is about to send.
C16_Witness ==
    \E c, k \in Addrs :
        /\ c # k
        /\ fwd[k] = "running" /\ Len(chan[k]) >= 2
        /\ pc[c] = "bc_send" /\ clientsLock = c

\* C17: the frames written to a connection are ordered.  The initial
\* snapshot is the first: when it is written the forward task, the only
\* other writer, has not been spawned, and the task runs only once it is
\* sent; no Move of the connection is processed before.  A write of the
\* forward task takes the oldest frame of the channel and leaves the others
\* in their order, and an enqueue adds at the end, so that the frames are
\* written in the order of their enqueue, each once.
C17_OrderedFrames ==
    [][\A c \in Addrs :
          /\ fwd[c] # "none" => initSent[c]
          /\ (pc[c] = "init_send" /\ pc'[c] = "bc_snap") =>
                ~initSent[c] /\ initSent'[c] /\ fwd[c] = "none"
          /\ (pc[c] = "recv" /\ pc'[c] = "mv_put") => initSent[c]
          /\ (fwd[c] = "running" /\ fwd'[c] = "running"
                /\ Len(chan'[c]) < Len(chan[c])) =>
                chan'[c] = Tail(chan[c])
          /\ Len(chan'[c]) > Len(chan[c]) =>
                /\ Len(chan'[c]) = Len(chan[c]) + 1
                /\ SubSeq(chan'[c], 1, Len(chan[c])) = chan[c]]_vars

\* Two connections have joined, each has been sent the frames of both join
\* broadcasts that were queued for it, and both channels are drained.
C17_Witness ==
    \E c, k \in Addrs :
        /\ c # k
        /\ pc[c] = "recv" /\ pc[k] = "recv"
        /\ fwd[c] = "running" /\ fwd[k] = "running"
        /\ chan[c] = <<>> /\ chan[k] = <<>>

\* C18: every broadcast frame is a consistent snapshot.  The step that
\* takes the snapshot copies the complete players map of that instant, each
\* record under its own id; the broadcast keeps that one snapshot until it
\* sends; and the step that sends appends this same frame to every channel
\* it sends to.
C18_ConsistentSnapshot ==
    [][\A c \in Addrs :
          /\ (pc[c] = "bc_snap" /\ pc'[c] = "bc_send") =>
                /\ snap'[c].game_state.players = players
                /\ \A id \in DOMAIN players : players[id].id = id
          /\ (pc[c] = "bc_send" /\ pc'[c] = "bc_send") => snap'[c] = snap[c]
          /\ EnqueueStep(c) =>
                \A k \in Addrs :
                    chan'[k] # chan[k] =>
                        \/ chan'[k] = Append(chan[k], snap[c])
                        \/ k = c /\ chan'[k] = <<>>]_vars

\* A broadcast holds a snapshot of two players while the world has moved
\* on since it was taken.
C18_Witness ==
    \E c \in Addrs :
        /\ pc[c] = "bc_send" /\ snap[c] # None
        /\ Cardinality(PlayersOf(snap[c])) = 2
        /\ snap[c] # ServerMessage(players)

\* C19: once every join, Move, close and broadcast in flight has finished
\* (and none ended in an error), the last frame enqueued on the channel of
\* every registered connection is the current world state.  Stated on the
\* channels that still hold their last frame.
C19_LastFrameIsCurrent ==
    (Quiescent /\ \A c \in Addrs : pc[c] # "ret_err") =>
        \A k \in Reachable :
            chan[k] # <<>> => chan[k][Len(chan[k])] = ServerMessage(players)

\* C20: no session holds the game_state lock and the clients lock at the
\* same time, and the holder of either lock can always go on and release
\* it without the other, so the two locks cannot deadlock.
C20_NeverBothLocks ==
    /\ \A c \in Addrs : ~(stateLock = c /\ clientsLock = c)
    /\ \A c \in Addrs : stateLock = c => ENABLED MvPut(c)
    /\ \A c \in Addrs : clientsLock = c => ENABLED BcSend(c)

\* One session holds the game_state lock inside its Move while another
\* holds the clients lock inside its broadcast.
C20_Witness ==
    \E c, k \in Addrs :
        /\ c # k
        /\ stateLock = c /\ pc[c] = "mv_put"
        /\ clientsLock = k /\ pc[k] = "bc_send"

====
